---- MODULE Spec2Model ----
(***************************************************************************)
(* Heroic Duotone Photo Editor (src/App.tsx).                              *)
(*                                                                         *)
(* Two specifications share this module:                                  *)
(*   SpecFilter  the pixel loop of applyDuotoneFilter (lines 91-113) run   *)
(*               on ImageData buffers, one loop iteration per step;        *)
(*   Spec        the App component: file upload, FileReader and Image      *)
(*               callbacks, the effect on originalImage, handleReset.      *)
(* Left out: isDragging and handleDragEvents (lines 60, 155-159), the      *)
(* isLoaded flag of ImagePanel (lines 23-34) and the file input's value    *)
(* (line 174): none of them is read by the code modelled here.             *)
(*                                                                         *)
(* Arithmetic.  The source computes in IEEE-754 doubles and stores into a  *)
(* Uint8ClampedArray.  The model computes the same bytes with integers:    *)
(* gray is kept in thousandths, and "round(dark + span * t)" with          *)
(* t = (gray/255)^(1/gamma) is decided by exact comparisons of             *)
(* n^9 * 255000^10 against (2*span)^9 * gray^10 on base-1000 numerals.     *)
(* For every one of the 2^24 (r,g,b) inputs the real value stays at least  *)
(* 2e-7 away from a rounding boundary, far more than the double rounding   *)
(* error, so the exact result is the byte the source stores.               *)
(***************************************************************************)
EXTENDS Integers, Sequences, FiniteSets, Bags, TLC

\* the value null of the source
NULL == [null |-> TRUE]

(***************************************************************************)
(* Bounds of the model.                                                    *)
(***************************************************************************)
\* channel values of the sampled input pixels: NumLevels evenly spread levels
NumLevels == 4
\* longest ImageData buffer of SpecFilter, in pixels
MaxPixels == 2
\* width and height of the hidden working canvas.  The source's canvas is
\* 1024 x 1024 (line 205); the model works on a canvas of a few pixels.
CanvasWidth == 2
CanvasHeight == 2
\* most FileReader and Image callbacks in flight at a time
MaxPending == 2

(***************************************************************************)
(* Constants of the source.                                                *)
(***************************************************************************)
\* const darkColor = { r: 27, g: 96, b: 47 }
darkColorTypo == [r |-> 27, g |-> 69, b |-> 47]
darkColor == [r |-> 27, g |-> 96, b |-> 47]
\* const lightColor = { r: 247, g: 132, b: 197 }
lightColor == [r |-> 247, g |-> 132, b |-> 197]
\* const gamma = 0.9, kept as the fraction gammaNum / gammaDen
gammaNum == 9
gammaDen == 10
\* the luminance weights 0.299, 0.587, 0.114 have three decimals: gray is
\* kept in thousandths, and numerals are written in base Milli
Milli == 1000
\* largest value of a colour channel (the divisor of "gray / 255")
MaxByte == 255

Abs(v) == IF v < 0 THEN -v ELSE v
Max(a, b) == IF a < b THEN b ELSE a
Min(a, b) == IF a < b THEN a ELSE b

(***************************************************************************)
(* Natural numbers beyond 32 bits: little-endian sequences of base-Milli   *)
(* digits without leading zeros (<<>> is zero).                            *)
(***************************************************************************)
RECURSIVE MulDigits(_, _, _)
MulDigits(a, k, carry) ==
    IF a = <<>>
    THEN IF carry = 0 THEN <<>> ELSE <<carry % Milli>> \o MulDigits(<<>>, k, carry \div Milli)
    ELSE LET v == Head(a) * k + carry
         IN  <<v % Milli>> \o MulDigits(Tail(a), k, v \div Milli)

\* a * k for a numeral a and 0 <= k < 2^21
MulSmall(a, k) == IF k = 0 THEN <<>> ELSE MulDigits(a, k, 0)

RECURSIVE MulPow(_, _, _)
\* a * k^e
MulPow(a, k, e) == IF e = 0 THEN a ELSE MulPow(MulSmall(a, k), k, e - 1)

\* a * Milli^e
ShiftMilli(a, e) == IF a = <<>> THEN a ELSE [j \in 1..e |-> 0] \o a

RECURSIVE CmpFrom(_, _, _)
CmpFrom(a, b, j) ==
    IF j = 0 THEN 0
    ELSE IF a[j] # b[j] THEN (IF a[j] < b[j] THEN -1 ELSE 1)
    ELSE CmpFrom(a, b, j - 1)

\* -1, 0, 1 as a < b, a = b, a > b
Cmp(a, b) ==
    IF Len(a) # Len(b) THEN (IF Len(a) < Len(b) THEN -1 ELSE 1)
    ELSE CmpFrom(a, b, Len(a))

(***************************************************************************)
(* The pixel transform, lines 103-112.                                     *)
(***************************************************************************)
\* line 103: gray = 0.299 * r + 0.587 * g + 0.114 * b, in thousandths
grayUnweighted(r, g, b) == 333 * r + 333 * g + 334 * b
gray(r, g, b) == 299 * r + 587 * g + 114 * b

\* The comparison that decides "n <= m * normalizedGray", where
\* normalizedGray = (gray / 255)^(1 / gamma) (lines 107-108):
\*     n <= m * (g / (255 * Milli))^(gammaDen / gammaNum)
\* <=> n^gammaNum * (255 * Milli)^gammaDen <= m^gammaNum * g^gammaDen.
\* PowBound[n] is the left side, for every n the two colours can ask for.
MaxSpan ==
    2 * Max(Abs(lightColor.r - darkColor.r),
            Max(Abs(lightColor.g - darkColor.g), Abs(lightColor.b - darkColor.b)))

PowBound ==
    LET top == MulPow(<<1>>, MaxByte, gammaDen)
        f == [n \in 0..MaxSpan |-> ShiftMilli(MulPow(top, n, gammaNum), gammaDen)]
    IN  [n \in 0..MaxSpan |-> f[n]] @@ <<>>

RECURSIVE FloorSearch(_, _, _)
\* the largest n in lo..hi with PowBound[n] <= rhs (lo is known to satisfy it)
FloorSearch(rhs, lo, hi) ==
    IF lo >= hi THEN lo
    ELSE LET mid == (lo + hi + 1) \div 2
         IN  IF Cmp(PowBound[mid], rhs) <= 0
             THEN FloorSearch(rhs, mid, hi)
             ELSE FloorSearch(rhs, lo, mid - 1)

\* lines 107-108 with the exponent gamma instead of 1 / gamma
RECURSIVE FloorSearchInverted(_, _, _, _)
FloorSearchInverted(m, g, lo, hi) ==
    IF lo >= hi THEN lo
    ELSE LET mid == (lo + hi + 1) \div 2
             lhs == ShiftMilli(MulPow(MulPow(<<1>>, mid, gammaDen), MaxByte, gammaNum), gammaNum)
             rhs == MulPow(MulPow(<<1>>, m, gammaDen), g, gammaNum)
         IN  IF Cmp(lhs, rhs) <= 0
             THEN FloorSearchInverted(m, g, mid, hi)
             ELSE FloorSearchInverted(m, g, lo, mid - 1)
ScaledGrayInverted(m, g) ==
    LET n == FloorSearchInverted(m, g, 0, m)
        lhs == ShiftMilli(MulPow(MulPow(<<1>>, n, gammaDen), MaxByte, gammaNum), gammaNum)
        rhs == MulPow(MulPow(<<1>>, m, gammaDen), g, gammaNum)
    IN  [floor |-> n, exact |-> Cmp(lhs, rhs) = 0]

\* lines 107-108: m * normalizedGray for an integer m >= 0 and gray g (in
\* thousandths), as its integer part and whether it is an integer
ScaledGray(m, g) ==
    LET rhs == MulPow(MulPow(<<1>>, m, gammaNum), g, gammaDen)
        n == FloorSearch(rhs, 0, m)
    IN  [floor |-> n, exact |-> Cmp(PowBound[n], rhs) = 0]

\* A store into a Uint8ClampedArray of the real number base + sign * (h + f) / 2
\* with integer h >= 0 and 0 <= f < 1 (f = 0 iff exact): round to the
\* nearest integer, a tie to the even one, then clamp to 0..255.
ToUint8Clamped(base, sign, h, exact) ==
    LET whole == h \div 2
        near == IF h % 2 = 0
                THEN base + sign * whole
                ELSE IF ~exact
                THEN base + sign * (whole + 1)
                ELSE IF (base + sign * whole) % 2 = 0
                THEN base + sign * whole
                ELSE base + sign * (whole + 1)
    IN  Max(0, Min(MaxByte, near))

\* lines 110-112 with the end colours exchanged
InterpolateSwapped(dark, light, g) ==
    LET span == dark - light
        s == ScaledGray(2 * Abs(span), g)
    IN  ToUint8Clamped(light, IF span < 0 THEN -1 ELSE 1, s.floor, s.exact)

\* lines 110-112: data[..] = dark + (light - dark) * normalizedGray
Interpolate(dark, light, g) ==
    LET span == light - dark
        s == ScaledGray(2 * Abs(span), g)
    IN  ToUint8Clamped(dark, IF span < 0 THEN -1 ELSE 1, s.floor, s.exact)

\* lines 98-113, one iteration that also rewrites the alpha byte
LoopBodyOpaque(data, i) ==
    LET g == gray(data[i + 1], data[i + 2], data[i + 3])
    IN  [data EXCEPT ![i + 1] = Interpolate(darkColor.r, lightColor.r, g),
                     ![i + 2] = Interpolate(darkColor.g, lightColor.g, g),
                     ![i + 3] = Interpolate(darkColor.b, lightColor.b, g),
                     ![i + 4] = MaxByte]

\* lines 98-113, one iteration of the loop at offset i (0-based as in the
\* source; the sequence data is 1-based): bytes i, i+1, i+2 are rewritten
LoopBody(data, i) ==
    LET g == gray(data[i + 1], data[i + 2], data[i + 3])
    IN  [data EXCEPT ![i + 1] = Interpolate(darkColor.r, lightColor.r, g),
                     ![i + 2] = Interpolate(darkColor.g, lightColor.g, g),
                     ![i + 3] = Interpolate(darkColor.b, lightColor.b, g)]

RECURSIVE DuotoneLoop(_, _)
\* lines 98-113: for (let i = 0; i < data.length; i += 4)
DuotoneLoop(data, i) ==
    IF i < Len(data) THEN DuotoneLoop(LoopBody(data, i), i + 4) ELSE data

(***************************************************************************)
(* State.                                                                  *)
(***************************************************************************)
VARIABLES
    \* the App component (lines 56-62)
    originalImage,      \* line 56: data URL of the uploaded file, or null
    processedImageURL,  \* line 57: data URL of the filtered canvas, or null
    isLoading,          \* line 58
    error,              \* line 59: null or the message shown
    canvasRef,          \* line 62: whether canvasRef.current is the canvas
    canvas,             \* line 205: the bitmap of the hidden canvas
    readers,            \* FileReaders whose onload is to come (bag of files)
    loads,              \* Images whose onload/onerror is to come (bag of srcs)
    img,                \* line 89: the image last drawn on the canvas
    \* the run of the pixel loop (SpecFilter)
    imageData,          \* line 91: the ImageData read from the canvas
    i,                  \* line 98: the loop offset into imageData.data
    input,              \* imageData.data as getImageData returned it
    prev,               \* input and output of the run before this one
    rel                 \* how this run's input was made from the previous run

appVars == <<originalImage, processedImageURL, isLoading, error, canvasRef,
             canvas, readers, loads, img>>
filterVars == <<imageData, i, input, prev, rel>>
vars == <<originalImage, processedImageURL, isLoading, error, canvasRef,
          canvas, readers, loads, img, imageData, i, input, prev, rel>>

RECURSIVE Repeat(_, _)
Repeat(s, n) == IF n = 0 THEN <<>> ELSE s \o Repeat(s, n - 1)

\* what clearRect leaves in a pixel nothing is drawn on (line 88)
transparentBlack == <<0, 0, 0, 0>>

\* line 91: an ImageData (or a canvas bitmap) of w * h pixels, row by row
ImageData(w, h, d) == [width |-> w, height |-> h, data |-> d]

\* line 205: <canvas width=.. height=..>, transparent when created
blankCanvas ==
    ImageData(CanvasWidth, CanvasHeight, Repeat(transparentBlack, CanvasWidth * CanvasHeight))

\* the App as mounted: lines 56-62 and 205
AppInit ==
    /\ originalImage = NULL
    /\ processedImageURL = NULL
    /\ isLoading = FALSE
    /\ error = NULL
    /\ canvasRef = TRUE
    /\ canvas = blankCanvas
    /\ readers = EmptyBag
    /\ loads = EmptyBag
    /\ img = NULL

NoRun == [in |-> <<>>, out |-> <<>>]

\* no run of the loop is in progress
FilterIdle ==
    /\ imageData = ImageData(0, 0, <<>>)
    /\ i = 0
    /\ input = <<>>
    /\ prev = NoRun
    /\ rel = "none"

(***************************************************************************)
(* SpecFilter: the loop of lines 98-113 on the buffers getImageData can    *)
(* return (4 bytes per pixel, width * height pixels).                      *)
(***************************************************************************)
Levels == {(MaxByte * k) \div (NumLevels - 1) : k \in 0..(NumLevels - 1)}
Alphas == {128, MaxByte}
midGray == <<128, 128, 128>>
SamplePixels == (Levels \X Levels \X Levels) \cup {midGray}

FilterInit ==
    /\ AppInit
    /\ \E n \in 1..MaxPixels, p \in SamplePixels, a \in Alphas :
           imageData = ImageData(n, 1, <<p[1], p[2], p[3], a>> \o Repeat(transparentBlack, n - 1))
    /\ i = 0
    /\ input = imageData.data
    /\ prev = NoRun
    /\ rel = "first"

LoopDone == i >= Len(imageData.data)

\* lines 98-113: one iteration
LoopStep ==
    /\ i < Len(imageData.data)
    /\ imageData' = [imageData EXCEPT !.data = LoopBody(imageData.data, i)]
    /\ i' = i + 4
    /\ UNCHANGED <<input, prev, rel>>
    /\ UNCHANGED appVars

\* the filter is run again on its own output
ApplyAgain ==
    /\ LoopDone
    /\ rel \in {"first", "again"}
    /\ prev' = [in |-> input, out |-> imageData.data]
    /\ input' = imageData.data
    /\ i' = 0
    /\ rel' = "again"
    /\ UNCHANGED imageData
    /\ UNCHANGED appVars

\* the filter is run on the first input with one of r, g, b of its first
\* pixel raised (by one, or to a higher sampled level) and every other byte
\* kept
RaiseChannel ==
    /\ LoopDone
    /\ rel = "first"
    /\ \E c \in 1..3 : \E v \in Levels \cup {input[c] + 1} :
          /\ v > input[c]
          /\ v <= MaxByte
          /\ input' = [input EXCEPT ![c] = v]
    /\ prev' = [in |-> input, out |-> imageData.data]
    /\ imageData' = [imageData EXCEPT !.data = input']
    /\ i' = 0
    /\ rel' = "raised"
    /\ UNCHANGED appVars

FilterNext == LoopStep \/ ApplyAgain \/ RaiseChannel

SpecFilter == FilterInit /\ [][FilterNext]_vars

(***************************************************************************)
(* Properties of the pixel loop (SpecFilter).                              *)
(***************************************************************************)
NumPixels(d) == Len(d) \div 4
\* the r, g, b bytes and the alpha byte of pixel k (k = 0, 1, ...)
Rgb(d, k) == <<d[4 * k + 1], d[4 * k + 2], d[4 * k + 3]>>
Alpha(d, k) == d[4 * k + 4]
\* the pixels the loop has rewritten so far
Rewritten == {k \in 0..(NumPixels(input) - 1) : 4 * k < i}

\* C1: at every point of the loop, every pixel's alpha byte is the alpha
\* byte getImageData returned for it: the loop writes bytes i, i+1, i+2 only.
C1_AlphaUnchanged ==
    /\ Len(imageData.data) = Len(input)
    /\ \A k \in 0..(NumPixels(input) - 1) : Alpha(imageData.data, k) = Alpha(input, k)

C1_Witness ==
    /\ LoopDone
    /\ \E k \in Rewritten :
          /\ Alpha(input, k) = 128
          /\ Alpha(imageData.data, k) = 128
          /\ Rgb(imageData.data, k) # Rgb(input, k)

\* C2: a rewritten pixel that was black (0,0,0) is (27,96,47), and one that
\* was white (255,255,255) is (247,132,197).
C2_Endpoints ==
    \A k \in Rewritten :
        /\ Rgb(input, k) = <<0, 0, 0>> => Rgb(imageData.data, k) = <<27, 96, 47>>
        /\ Rgb(input, k) = <<255, 255, 255>> => Rgb(imageData.data, k) = <<247, 132, 197>>

C2_Witness ==
    /\ LoopDone
    /\ \E k1, k2 \in Rewritten :
          /\ Rgb(input, k1) = <<0, 0, 0>>
          /\ Rgb(imageData.data, k1) = <<27, 96, 47>>
          /\ Rgb(input, k2) = <<255, 255, 255>>
          /\ Rgb(imageData.data, k2) = <<247, 132, 197>>

C4_Monotone ==
    (rel = "raised" /\ LoopDone) =>
        /\ \A k \in 0..(NumPixels(input) - 1) :
              LET g0 == gray(prev.in[4 * k + 1], prev.in[4 * k + 2], prev.in[4 * k + 3])
                  g1 == gray(input[4 * k + 1], input[4 * k + 2], input[4 * k + 3])
              IN  /\ g0 <= g1
                  /\ ScaledGray(MaxSpan, g0).floor <= ScaledGray(MaxSpan, g1).floor
        /\ \A j \in 1..Len(input) : prev.out[j] <= imageData.data[j]

C4_Witness ==
    /\ rel = "raised"
    /\ LoopDone
    /\ \E c \in 1..3 : prev.in[c] < input[c]
    /\ \A c \in 1..3 : prev.out[c] < imageData.data[c]

\* C5 as stated: the filter run on its own output changes some r, g or b byte.
C5_SecondRunChanges ==
    (rel = "again" /\ LoopDone) =>
        \E k \in 0..(NumPixels(input) - 1) : Rgb(imageData.data, k) # Rgb(input, k)

\* the one colour the transform maps to itself
fixedColor == <<114, 110, 106>>

\* C5 amended: the filter run on its own output changes every pixel whose
\* colour is not (114,110,106), and leaves a pixel of that colour as it is.
C5_SecondRunChangesUnlessFixed ==
    (rel = "again" /\ LoopDone) =>
        \A k \in 0..(NumPixels(input) - 1) :
            Rgb(imageData.data, k) = Rgb(input, k) <=> Rgb(input, k) = fixedColor

C5_Witness ==
    /\ rel = "again"
    /\ LoopDone
    /\ prev.in = <<0, 0, 0, 128>>
    /\ input = <<27, 96, 47, 128>>
    /\ Rgb(imageData.data, 0) # Rgb(input, 0)

(***************************************************************************)
(* Spec: the App component.                                                *)
(*                                                                         *)
(* Files, data URLs and images.  A file is its MIME type (major, minor)    *)
(* and its bytes; readAsDataURL keeps both; the browser decodes the bytes  *)
(* of a data URL to an image (here of one colour) or fails.                *)
(***************************************************************************)
Files ==
    { [type |-> <<"image", "png">>,  bytes |-> "wide"],
      [type |-> <<"image", "jpeg">>, bytes |-> "tall"],
      [type |-> <<"image", "png">>,  bytes |-> "broken"],
      [type |-> <<"text", "plain">>, bytes |-> "notes"] }

\* line 149: reader.readAsDataURL(file), the value of e.target.result
ReadAsDataURL(file) == [mime |-> file.type, base64 |-> file.bytes]

\* line 134: whether the browser can decode the src (onload) or not (onerror)
Decodable(src) == src.base64 \in {"wide", "tall"}

\* line 127-134: the decoded image
Decode(src) ==
    IF src.base64 = "wide"
    THEN [width |-> 4, height |-> 2, pixel |-> <<255, 255, 255, 255>>]
    ELSE [width |-> 1, height |-> 2, pixel |-> <<0, 0, 0, 255>>]

\* lines 74, 131, 142: setError(message)
ErrorMessage(m) == [message |-> m]

(***************************************************************************)
(* The canvas calls of applyDuotoneFilter.                                 *)
(***************************************************************************)
\* lines 78-86: the centred, aspect-preserving fit.  x, y, drawWidth and
\* drawHeight are fractions; each is given as its numerator over den.
DrawRect(im, cv) ==
    LET den == 2 * im.width * im.height
        fitHeight == cv.width * im.height * 2 * im.height
        tooHigh == fitHeight > cv.height * den
        dw == IF tooHigh THEN cv.height * im.width * 2 * im.width ELSE cv.width * den
        dh == IF tooHigh THEN cv.height * den ELSE fitHeight
    IN  [den |-> den,
         x |-> (cv.width * den - dw) \div 2,
         y |-> (cv.height * den - dh) \div 2,
         drawWidth |-> dw,
         drawHeight |-> dh]

\* line 72: what canvas.getContext('2d', ..) returns when it is not null
context2d == [contextType |-> "2d"]

\* line 88: ctx.clearRect(0, 0, canvas.width, canvas.height)
ClearRect(cv) == [cv EXCEPT !.data = Repeat(transparentBlack, cv.width * cv.height)]

\* length of the overlap of [lo1, hi1) and [lo2, hi2)
Overlap(lo1, hi1, lo2, hi2) == Max(0, Min(hi1, hi2) - Max(lo1, lo2))

\* line 89: ctx.drawImage(img, x, y, drawWidth, drawHeight) on the cleared
\* canvas: a pixel takes the image's colour, its alpha scaled by the part of
\* the pixel the rectangle covers; a pixel left with alpha 0 stays as it was
DrawImage(cv, im, rc) ==
    LET pix(k) ==
            LET cx == k % cv.width
                cy == k \div cv.width
                ox == Overlap(cx * rc.den, (cx + 1) * rc.den, rc.x, rc.x + rc.drawWidth)
                oy == Overlap(cy * rc.den, (cy + 1) * rc.den, rc.y, rc.y + rc.drawHeight)
                a == (im.pixel[4] * ox * oy) \div (rc.den * rc.den)
            IN  IF a = 0
                THEN SubSeq(cv.data, 4 * k + 1, 4 * k + 4)
                ELSE <<im.pixel[1], im.pixel[2], im.pixel[3], a>>
        RECURSIVE rows(_)
        rows(k) == IF k = cv.width * cv.height THEN <<>> ELSE pix(k) \o rows(k + 1)
    IN  [cv EXCEPT !.data = rows(0)]

\* line 91: ctx.getImageData(0, 0, canvas.width, canvas.height)
GetImageData(cv) == ImageData(cv.width, cv.height, cv.data)

\* line 115: ctx.putImageData(imageData, 0, 0).  The canvas keeps colours
\* multiplied by alpha, so a pixel of alpha 0 is kept as transparent black.
PutImageData(cv, imd) ==
    LET pix(k) ==
            IF imd.data[4 * k + 4] = 0
            THEN transparentBlack
            ELSE SubSeq(imd.data, 4 * k + 1, 4 * k + 4)
        RECURSIVE rows(_)
        rows(k) == IF k = imd.width * imd.height THEN <<>> ELSE pix(k) \o rows(k + 1)
    IN  [cv EXCEPT !.data = rows(0)]

\* line 116: canvas.toDataURL('image/png'): the canvas bitmap, PNG-encoded
\* (lossless: the URL determines width, height and every pixel)
ToDataURL(cv) ==
    [mime |-> <<"image", "png">>, width |-> cv.width, height |-> cv.height,
     data |-> cv.data]

\* lines 68-118 with the canvas first sized to the image
ApplyDuotoneFilterResizing(im, st, ctx) ==
    IF ~st.canvasRef THEN st
    ELSE IF ctx = NULL
    THEN [st EXCEPT !.error = ErrorMessage("Could not get canvas context.")]
    ELSE LET sized == ImageData(im.width, im.height, <<>>)
             drawn == DrawImage(ClearRect(sized), im, DrawRect(im, sized))
             read == GetImageData(drawn)
             done == [read EXCEPT !.data = DuotoneLoop(read.data, 0)]
             put == PutImageData(drawn, done)
         IN  [st EXCEPT !.img = im,
                        !.canvas = put,
                        !.processedImageURL = ToDataURL(put),
                        !.isLoading = FALSE]

\* lines 68-118: applyDuotoneFilter(img).  st holds canvasRef, canvas, img,
\* processedImageURL, isLoading and error; ctx is what getContext returned.
ApplyDuotoneFilter(im, st, ctx) ==
    IF ~st.canvasRef THEN st
    ELSE IF ctx = NULL
    THEN [st EXCEPT !.error = ErrorMessage("Could not get canvas context.")]
    ELSE LET drawn == DrawImage(ClearRect(st.canvas), im, DrawRect(im, st.canvas))
             read == GetImageData(drawn)
             done == [read EXCEPT !.data = DuotoneLoop(read.data, 0)]
             put == PutImageData(drawn, done)
         IN  [st EXCEPT !.img = im,
                        !.canvas = put,
                        !.processedImageURL = ToDataURL(put),
                        !.isLoading = FALSE]

Pending == BagCardinality(readers) + BagCardinality(loads)

\* lines 91-92: a pixel buffer holds width * height * 4 bytes.  It holds of
\* every ImageData and canvas bitmap of both specifications: the only buffer
\* the loop is given is the one getImageData returns.
WellFormed(imd) == Len(imd.data) = imd.width * imd.height * 4
BuffersWellFormed == WellFormed(imageData) /\ WellFormed(canvas)

\* lines 138-151, called by the file input (line 190) and by handleDrop
\* (line 165); both belong to the UploadBox, rendered while originalImage
\* is null (line 226)
HandleFileChange ==
    /\ originalImage = NULL
    /\ \E files \in {<<>>} \cup {<<f>> : f \in Files} :
          \/ /\ files = <<>>
             /\ UNCHANGED <<error, readers>>
          \/ /\ files # <<>>
             /\ files[1].type[1] # "image"
             /\ error' = ErrorMessage("Please upload an image file (e.g., JPG, PNG).")
             /\ UNCHANGED readers
          \/ /\ files # <<>>
             /\ files[1].type[1] = "image"
             /\ Pending < MaxPending
             /\ readers' = readers (+) SetToBag({files[1]})
             /\ UNCHANGED error
    /\ UNCHANGED <<originalImage, processedImageURL, isLoading, canvasRef, canvas,
                   loads, img>>
    /\ UNCHANGED filterVars

\* lines 146-148, reader.onload: setOriginalImage(result), and with it the
\* effect of lines 120-136, which React runs once for a render in which
\* originalImage has changed
ReaderOnload ==
    \E file \in BagToSet(readers) :
        LET src == ReadAsDataURL(file) IN
        /\ readers' = readers (-) SetToBag({file})
        /\ \/ /\ src = originalImage
              /\ UNCHANGED <<originalImage, isLoading, processedImageURL, error, loads>>
           \/ /\ src # originalImage
              /\ originalImage' = src
              /\ isLoading' = TRUE
              /\ processedImageURL' = NULL
              /\ error' = NULL
              /\ loads' = loads (+) SetToBag({src})
        /\ UNCHANGED <<canvasRef, canvas, img>>
        /\ UNCHANGED filterVars

\* line 129, img.onload: applyDuotoneFilter(img)
ImgOnload ==
    \E src \in BagToSet(loads), ctx \in {NULL, context2d} :
        /\ Decodable(src)
        /\ loads' = loads (-) SetToBag({src})
        /\ LET st == [canvasRef |-> canvasRef, canvas |-> canvas, img |-> img,
                      processedImageURL |-> processedImageURL,
                      isLoading |-> isLoading, error |-> error]
               new == ApplyDuotoneFilter(Decode(src), st, ctx)
           IN  /\ canvas' = new.canvas
               /\ img' = new.img
               /\ processedImageURL' = new.processedImageURL
               /\ isLoading' = new.isLoading
               /\ error' = new.error
        /\ UNCHANGED <<originalImage, canvasRef, readers>>
        /\ UNCHANGED filterVars

\* lines 130-133, img.onerror
ImgOnerror ==
    \E src \in BagToSet(loads) :
        /\ ~Decodable(src)
        /\ loads' = loads (-) SetToBag({src})
        /\ error' = ErrorMessage("Failed to load the image. Please try a different file.")
        /\ isLoading' = FALSE
        /\ UNCHANGED <<originalImage, processedImageURL, canvasRef, canvas, readers, img>>
        /\ UNCHANGED filterVars

\* lines 168-176, the "Convert Another" button, rendered while
\* processedImageURL is not null (line 236).  The effect runs for the new
\* originalImage and returns at line 121.
HandleReset ==
    /\ processedImageURL # NULL
    /\ originalImage' = NULL
    /\ processedImageURL' = NULL
    /\ error' = NULL
    /\ isLoading' = FALSE
    /\ UNCHANGED <<canvasRef, canvas, readers, loads, img>>
    /\ UNCHANGED filterVars

Init == AppInit /\ FilterIdle

Next == HandleFileChange \/ ReaderOnload \/ ImgOnload \/ ImgOnerror \/ HandleReset

Spec == Init /\ [][Next]_vars

(***************************************************************************)
(* Properties of the App (Spec).                                           *)
(***************************************************************************)
\* C6 as stated: the processed image has the width and the height of the
\* image it was made from.
C6_SameSizeAsImage ==
    processedImageURL # NULL =>
        /\ processedImageURL.width = img.width
        /\ processedImageURL.height = img.height

\* C6 amended: the processed image has the width and the height of the
\* working canvas, which are those of the ImageData the loop rewrites
\* (width * height * 4 bytes), whatever the size of the image drawn on it.
C6_SameSizeAsCanvas ==
    processedImageURL # NULL =>
        /\ processedImageURL.width = CanvasWidth
        /\ processedImageURL.height = CanvasHeight
        /\ Len(processedImageURL.data) = CanvasWidth * CanvasHeight * 4
        /\ canvas.width = CanvasWidth
        /\ canvas.height = CanvasHeight

C6_Witness ==
    /\ processedImageURL # NULL
    /\ img.width = 4
    /\ img.height = 2
    /\ processedImageURL.width = CanvasWidth
    /\ processedImageURL.height = CanvasHeight

\* what applyDuotoneFilter publishes for the image of a data URL
Rendering(src) ==
    ApplyDuotoneFilter(Decode(src),
                       [canvasRef |-> TRUE, canvas |-> blankCanvas, img |-> NULL,
                        processedImageURL |-> NULL, isLoading |-> TRUE,
                        error |-> NULL],
                       context2d).processedImageURL

\* C8: a processed image on display is the duotone rendering of the image
\* held in originalImage.
C8_NoStaleResult ==
    processedImageURL # NULL =>
        /\ originalImage # NULL
        /\ Decodable(originalImage)
        /\ processedImageURL = Rendering(originalImage)

\* C9: once the onload or onerror callback of the image in originalImage has
\* run, isLoading is false and exactly one of processedImageURL and error
\* is set.
C9_EveryLoadCompletes ==
    (originalImage # NULL /\ ~BagIn(originalImage, loads)) =>
        /\ ~isLoading
        /\ (processedImageURL # NULL) # (error # NULL)

\* C10: with no callback pending, the upload box (originalImage is null) or
\* the reset button (processedImageURL is not null) is on the page.
C10_NeverDeadEnds ==
    Pending = 0 => (originalImage = NULL \/ processedImageURL # NULL)

====
